---- MODULE Spec2Model ----
(***************************************************************************)
(* Model of the schedule text generator: the Scheduler (week model and     *)
(* time slots), the TextGenerator (sort, grouping, conflicts, merge) and   *)
(* the ScheduleApp (candidate store, drag selection, full-day toggle,      *)
(* removal, reset, week navigation), the HolidayService (load of the      *)
(* holiday file, primary and fallback answers) and the HolidayFetcher that *)
(* refreshes the holiday file.                                             *)
(*                                                                         *)
(* A JavaScript Date is the record [day, tod]: the local calendar day as a *)
(* number of days since 1970-01-01 and the time of day in clock ticks.     *)
(* The clock `now` counts ticks; Date.now() is `now`.                      *)
(***************************************************************************)
EXTENDS Integers, Sequences, FiniteSets, TLC

VARIABLES now, currentWeek, selectedCandidates, isSelecting, selectionStart,
          selectionEnd, timeCells, cellMark, headerSelected,
          candidatesDisplay, appPc, lastOp, resetDate, netWeeks, startTime,
          arg, res, holidayData, fallbackHolidays, isInitialized,
          initPromise, loadPc, response, tzOffset

vars == <<now, currentWeek, selectedCandidates, isSelecting, selectionStart,
          selectionEnd, timeCells, cellMark, headerSelected,
          candidatesDisplay, appPc, lastOp, resetDate, netWeeks, startTime,
          arg, res, holidayData, fallbackHolidays, isInitialized,
          initPromise, loadPc, response, tzOffset>>

\* the HolidayService object, the load in progress and the environment's
\* answer to the fetch and its time zone
ServiceState == <<holidayData, fallbackHolidays, isInitialized, initPromise,
                  loadPc, response, tzOffset>>

(***************************************************************************)
(* Bounds of the model.                                                    *)
(***************************************************************************)
\* clock ticks in one calendar day (the clock's granularity)
TicksPerDay == 2
\* the clock advances at most this many ticks after the app was constructed
MaxTicks == 1
\* at most this many candidates are kept in the store
MaxCandidates == 2
\* the displayed week is at most this many weeks away from the last reset
MaxNav == 1
\* longest candidate list handed to the pure TextGenerator functions
MaxLen == 3
\* weeks of navigation away from the last reset in the navigation-only runs
NavBound == 2
\* most data rows of a CSV text handed to parseCSV
MaxRows == 3

(***************************************************************************)
(* Program constants.                                                      *)
(***************************************************************************)
startHour == 9
endHour == 18
minuteInterval == 15
\* the fixed range of a full-day candidate
fullDayStartHour == 9
fullDayEndHour == 18
\* the step addCandidate adds to the end of a drag
dragStep == 15

Min(a, b) == IF a <= b THEN a ELSE b
Max(a, b) == IF a >= b THEN a ELSE b

(***************************************************************************)
(* The calendar behind Date: days since 1970-01-01 <-> (year, month, day). *)
(***************************************************************************)
DaysFromCivil(y, m, d) ==
    LET yy  == IF m <= 2 THEN y - 1 ELSE y
        era == yy \div 400
        yoe == yy - era * 400
        mp  == IF m > 2 THEN m - 3 ELSE m + 9
        doy == (153 * mp + 2) \div 5 + d - 1
        doe == yoe * 365 + yoe \div 4 - yoe \div 100 + doy
    IN  era * 146097 + doe - 719468

CivilFromDays(n) ==
    LET z   == n + 719468
        era == z \div 146097
        doe == z - era * 146097
        yoe == (doe - doe \div 1460 + doe \div 36524 - doe \div 146096) \div 365
        doy == doe - (365 * yoe + yoe \div 4 - yoe \div 100)
        mp  == (5 * doy + 2) \div 153
        d   == doy - (153 * mp + 2) \div 5 + 1
        m   == IF mp < 10 THEN mp + 3 ELSE mp - 9
        y   == yoe + era * 400 + (IF m <= 2 THEN 1 ELSE 0)
    IN  [year |-> y, month |-> m, date |-> d]

\* new Date(): the clock read as a local date with its time of day
NewDate(t) == [day |-> t \div TicksPerDay, tod |-> t % TicksPerDay]
\* Date.prototype.getTime
getTime(date) == date.day * TicksPerDay + date.tod
\* Date.prototype.getDay: 0 = Sunday (1970-01-01 was a Thursday)
getDay(date) == (date.day + 4) % 7
\* Date.prototype.getDate: the day of the month
getDate(date) == CivilFromDays(date.day).date
getMonth(date) == CivilFromDays(date.day).month - 1
getFullYear(date) == CivilFromDays(date.day).year
\* Date.prototype.setDate: day n of the date's month, n may lie outside the
\* month (0, negative, past the end) and then rolls into the neighbours
setDate(date, n) ==
    LET c == CivilFromDays(date.day)
    IN  [day |-> DaysFromCivil(c.year, c.month, 1) + n - 1, tod |-> date.tod]

(***************************************************************************)
(* Scheduler                                                               *)
(***************************************************************************)
\* getMonday without the Sunday case: a Sunday goes to the Monday after it
getMondayAfterSunday(date) ==
    LET day  == getDay(date)
        diff == getDate(date) - day + 1
    IN  setDate(date, diff)

getMonday(date) ==
    LET day  == getDay(date)
        diff == getDate(date) - day + (IF day = 0 THEN -6 ELSE 1)
    IN  setDate(date, diff)

getWeekDates(ref) ==
    LET monday == getMonday(ref)
    IN  [i \in 1..7 |-> setDate(monday, getDate(monday) + (i - 1))]

\* moveToPreviousWeek that stops at the first day of the month
moveToPreviousWeekClamped(ref) == setDate(ref, Max(1, getDate(ref) - 7))

moveToPreviousWeek(ref) == setDate(ref, getDate(ref) - 7)
moveToNextWeek(ref) == setDate(ref, getDate(ref) + 7)
moveToThisWeek(t) == NewDate(t)

Slot(hour, minute) == [hour |-> hour, minute |-> minute, isHourMark |-> minute = 0]

RECURSIVE MinuteLoopNoBreak(_, _)
\* the inner loop without the break at the end hour
MinuteLoopNoBreak(hour, minute) ==
    IF minute < 60
    THEN <<Slot(hour, minute)>> \o MinuteLoopNoBreak(hour, minute + minuteInterval)
    ELSE <<>>

RECURSIVE MinuteLoop(_, _)
\* the inner loop of generateTimeSlots for one hour, from `minute` on
MinuteLoop(hour, minute) ==
    IF minute < 60
    THEN IF hour = endHour /\ minute > 0
         THEN <<>>
         ELSE <<Slot(hour, minute)>> \o MinuteLoop(hour, minute + minuteInterval)
    ELSE <<>>

RECURSIVE HourLoop(_)
HourLoop(hour) ==
    IF hour <= endHour THEN MinuteLoop(hour, 0) \o HourLoop(hour + 1) ELSE <<>>

generateTimeSlots == HourLoop(startHour)

(***************************************************************************)
(* TextGenerator                                                           *)
(***************************************************************************)
\* the key string YYYY-MM-DD, kept as its three numbers
getDateKey(date) ==
    <<getFullYear(date), getMonth(date) + 1, getDate(date)>>

StartMinutes(c) == c.startHour * 60 + c.startMinute
EndMinutes(c) == c.endHour * 60 + c.endMinute

\* the comparator of sortCandidates: negative, zero or positive
SortCompare(a, b) ==
    LET dateCompare == getTime(a.date) - getTime(b.date)
    IN  IF dateCompare # 0 THEN dateCompare
        ELSE StartMinutes(a) - StartMinutes(b)

StartCompare(a, b) == StartMinutes(a) - StartMinutes(b)

\* the comparator handed to Array.prototype.sort: by "time" the one of
\* sortCandidates, by "start" the start time only
Compare(by, a, b) ==
    IF by = "time" THEN SortCompare(a, b) ELSE StartCompare(a, b)

RECURSIVE InsertStable(_, _, _)
\* x goes behind every element it does not precede (Array.prototype.sort
\* is stable)
InsertStable(by, s, x) ==
    IF s = <<>> THEN <<x>>
    ELSE IF Compare(by, x, Head(s)) < 0 THEN <<x>> \o s
         ELSE <<Head(s)>> \o InsertStable(by, Tail(s), x)

RECURSIVE StableSort(_, _)
StableSort(by, s) ==
    IF s = <<>> THEN <<>>
    ELSE InsertStable(by, StableSort(by, SubSeq(s, 1, Len(s) - 1)), s[Len(s)])

sortCandidates(candidates) == StableSort("time", candidates)

RECURSIVE GroupKeys(_)
\* the keys of the Map built by groupByDate, in insertion order
GroupKeys(candidates) ==
    IF candidates = <<>> THEN <<>>
    ELSE LET rest == GroupKeys(SubSeq(candidates, 1, Len(candidates) - 1))
             k    == getDateKey(candidates[Len(candidates)].date)
         IN  IF \E i \in 1..Len(rest) : rest[i] = k THEN rest
             ELSE Append(rest, k)

\* the Map built by groupByDate, as the sequence of its groups
groupByDate(candidates) ==
    LET keys == GroupKeys(candidates)
    IN  [i \in 1..Len(keys) |->
            SelectSeq(candidates, LAMBDA c : getDateKey(c.date) = keys[i])]

\* entries refer to the candidates by their position in the argument
RECURSIVE ConflictLoop(_, _, _)
ConflictLoop(candidates, i, j) ==
    IF i > Len(candidates) THEN <<>>
    ELSE IF j > Len(candidates) THEN ConflictLoop(candidates, i + 1, i + 2)
    ELSE LET a == candidates[i]
             b == candidates[j]
             hit == /\ getDateKey(a.date) = getDateKey(b.date)
                    /\ StartMinutes(a) < EndMinutes(b)
                    /\ EndMinutes(a) > StartMinutes(b)
         IN  (IF hit THEN <<[candidate1 |-> i, candidate2 |-> j,
                             type |-> "time_overlap"]>>
              ELSE <<>>) \o ConflictLoop(candidates, i, j + 1)

\* checkTimeConflicts with <= for <: touching ranges reported
RECURSIVE ConflictLoopTouching(_, _, _)
ConflictLoopTouching(candidates, i, j) ==
    IF i > Len(candidates) THEN <<>>
    ELSE IF j > Len(candidates) THEN ConflictLoopTouching(candidates, i + 1, i + 2)
    ELSE LET a == candidates[i]
             b == candidates[j]
             hit == /\ getDateKey(a.date) = getDateKey(b.date)
                    /\ StartMinutes(a) <= EndMinutes(b)
                    /\ EndMinutes(a) >= StartMinutes(b)
         IN  (IF hit THEN <<[candidate1 |-> i, candidate2 |-> j,
                             type |-> "time_overlap"]>>
              ELSE <<>>) \o ConflictLoopTouching(candidates, i, j + 1)

checkTimeConflictsTouching(candidates) == ConflictLoopTouching(candidates, 1, 2)

checkTimeConflicts(candidates) == ConflictLoop(candidates, 1, 2)

WithEnd(c, e) == [c EXCEPT !.endHour = e \div 60, !.endMinute = e % 60]

RECURSIVE MergeRun(_)
\* one date's candidates, in start order, folded into running ranges
MergeRun(sorted) ==
    IF sorted = <<>> THEN <<>>
    ELSE LET acc  == MergeRun(SubSeq(sorted, 1, Len(sorted) - 1))
             next == sorted[Len(sorted)]
         IN  IF acc # <<>> /\ StartMinutes(next) <= EndMinutes(acc[Len(acc)])
             THEN [acc EXCEPT ![Len(acc)] =
                      WithEnd(@, Max(EndMinutes(@), EndMinutes(next)))]
             ELSE Append(acc, next)

RECURSIVE MergeRunStrict(_)
\* MergeRun that merges only overlapping candidates, not touching ones
MergeRunStrict(sorted) ==
    IF sorted = <<>> THEN <<>>
    ELSE LET acc  == MergeRunStrict(SubSeq(sorted, 1, Len(sorted) - 1))
             next == sorted[Len(sorted)]
         IN  IF acc # <<>> /\ StartMinutes(next) < EndMinutes(acc[Len(acc)])
             THEN [acc EXCEPT ![Len(acc)] =
                      WithEnd(@, Max(EndMinutes(@), EndMinutes(next)))]
             ELSE Append(acc, next)

RECURSIVE MergeRunPrevious(_)
\* MergeRun that compares a candidate with the candidate before it instead
\* of with the running range
MergeRunPrevious(sorted) ==
    IF sorted = <<>> THEN <<>>
    ELSE LET acc  == MergeRunPrevious(SubSeq(sorted, 1, Len(sorted) - 1))
             next == sorted[Len(sorted)]
         IN  IF /\ acc # <<>>
                /\ StartMinutes(next) <= EndMinutes(sorted[Len(sorted) - 1])
             THEN [acc EXCEPT ![Len(acc)] =
                      WithEnd(@, Max(EndMinutes(@), EndMinutes(next)))]
             ELSE Append(acc, next)

RECURSIVE Flatten(_)
Flatten(ss) ==
    IF ss = <<>> THEN <<>> ELSE Head(ss) \o Flatten(Tail(ss))

mergeContinuousCandidatesStrict(candidates) ==
    LET groups == groupByDate(candidates)
    IN  Flatten([i \in 1..Len(groups) |->
                    MergeRunStrict(StableSort("start", groups[i]))])

mergeContinuousCandidatesPrevious(candidates) ==
    LET groups == groupByDate(candidates)
    IN  Flatten([i \in 1..Len(groups) |->
                    MergeRunPrevious(StableSort("start", groups[i]))])

mergeContinuousCandidates(candidates) ==
    LET groups == groupByDate(candidates)
    IN  Flatten([i \in 1..Len(groups) |->
                    MergeRun(StableSort("start", groups[i]))])

(***************************************************************************)
(* TextGenerator: the renderers.  A rendered text is the sequence of its   *)
(* lines; a line is a header, a blank line or an entry, an entry being     *)
(* what the standard template prints of a candidate (year, month, day,     *)
(* weekday, start and end time) behind its prefix: nothing, its number     *)
(* or the bullet.                                                          *)
(***************************************************************************)
\* formatCandidate / formatStandard
formatCandidate(candidate) ==
    [year |-> getFullYear(candidate.date),
     month |-> getMonth(candidate.date) + 1,
     day |-> getDate(candidate.date),
     weekday |-> getDay(candidate.date),
     startTime |-> <<candidate.startHour, candidate.startMinute>>,
     endTime |-> <<candidate.endHour, candidate.endMinute>>]

\* a line: its kind, the number it is prefixed with (0: none) and the
\* formatted candidates on it (one on an entry, none on the others)
Line(kind, n, texts) == [kind |-> kind, n |-> n, text |-> texts]

\* formatCandidates: the candidates in the order given, one per line
formatCandidates(candidates) ==
    [i \in 1..Len(candidates) |->
        Line("entry", 0, <<formatCandidate(candidates[i])>>)]

\* formatByDate: the groups in the order of their sorted keys, each sorted by
\* sortCandidates, a blank line between two groups
formatByDate(candidates) ==
    LET groups  == groupByDate(candidates)
        KeyOf(i) == getDateKey(groups[i][1].date)
        \* string order of YYYY-MM-DD
        Before(k1, k2) ==
            \/ k1[1] < k2[1]
            \/ k1[1] = k2[1] /\ k1[2] < k2[2]
            \/ k1[1] = k2[1] /\ k1[2] = k2[2] /\ k1[3] < k2[3]
        Rank(i) == 1 + Cardinality({j \in 1..Len(groups) :
                                       Before(KeyOf(j), KeyOf(i))})
        Sorted(r) == groups[CHOOSE i \in 1..Len(groups) : Rank(i) = r]
        Text(r) == LET dateCandidates == sortCandidates(Sorted(r))
                   IN  (IF r > 1
                        THEN <<Line("blank", 0, <<>>)>>
                        ELSE <<>>)
                       \o [i \in 1..Len(dateCandidates) |->
                              Line("entry", 0,
                                   <<formatCandidate(dateCandidates[i])>>)]
    IN  Flatten([r \in 1..Len(groups) |-> Text(r)])

\* formatForEmail with its header: the sorted candidates, numbered
formatForEmail(candidates) ==
    LET sortedCandidates == sortCandidates(candidates)
    IN  IF Len(candidates) = 0 THEN <<>>
        ELSE <<Line("header", 0, <<>>)>>
             \o [i \in 1..Len(sortedCandidates) |->
                    Line("entry", i, <<formatCandidate(sortedCandidates[i])>>)]

\* formatForChat: the sorted candidates, each behind the bullet
formatForChat(candidates) ==
    LET sortedCandidates == sortCandidates(candidates)
    IN  [i \in 1..Len(sortedCandidates) |->
            Line("bullet", 0, <<formatCandidate(sortedCandidates[i])>>)]

(***************************************************************************)
(* Scheduler: validity of times                                            *)
(***************************************************************************)
timeToMinutes(hour, minute) == hour * 60 + minute

isValidTime(hour, minute) ==
    /\ hour >= startHour
    /\ hour <= endHour
    /\ minute >= 0 /\ minute < 60
    /\ minute % minuteInterval = 0

\* isValidTimeRange without its last condition: an end after endHour:00 passes
isValidTimeRangeAnyEnd(sH, sM, eH, eM) ==
    LET startT == timeToMinutes(sH, sM)
        endT   == timeToMinutes(eH, eM)
    IN  /\ isValidTime(sH, sM)
        /\ isValidTime(eH, eM)
        /\ endT > startT

isValidTimeRange(sH, sM, eH, eM) ==
    LET startT == timeToMinutes(sH, sM)
        endT   == timeToMinutes(eH, eM)
    IN  /\ isValidTime(sH, sM)
        /\ isValidTime(eH, eM)
        /\ endT > startT
        /\ (eH < endHour \/ (eH = endHour /\ eM = 0))

(***************************************************************************)
(* Date, continued: construction from parts and the UTC calendar date.     *)
(* tzOffset is the environment's time zone as getTimezoneOffset gives it,  *)
(* in clock ticks: UTC = local time + tzOffset (negative east of           *)
(* Greenwich).                                                             *)
(***************************************************************************)
\* new Date(year, monthIndex, day): local midnight; months and days outside
\* their range roll over, years 0..99 mean 1900..1999
NewDateYMD(year, monthIndex, day) ==
    LET y0 == IF year \in 0..99 THEN 1900 + year ELSE year
        y  == y0 + monthIndex \div 12
        m  == (monthIndex % 12) + 1
    IN  [day |-> DaysFromCivil(y, m, 1) + day - 1, tod |-> 0]

\* date.toISOString().split('T')[0]: the UTC calendar date YYYY-MM-DD, kept
\* as its three numbers
toISODate(date) ==
    LET c == CivilFromDays((getTime(date) + tzOffset) \div TicksPerDay)
    IN  <<c.year, c.month, c.date>>

(***************************************************************************)
(* HolidayService                                                          *)
(*                                                                         *)
(* A JSON value that is null or an object is a record with the field kind; *)
(* the value of one year of data.holidays is an array (isArray, items) or  *)
(* null.  A holiday entry's date string YYYY-MM-DD is its three numbers.   *)
(***************************************************************************)
\* null for holidayData
NoData == [kind |-> "null", hasHolidays |-> FALSE, holidays |-> <<>>]
\* null for fallbackHolidays
NoTable == [kind |-> "null", fixedHolidays |-> <<>>]

\* _getNthWeekdayOfMonth that takes the n-th week of the month instead of
\* the n-th occurrence of the weekday
getNthWeekdayOfMonthByWeek(year, month, weekday, n) ==
    LET firstDay     == NewDateYMD(year, month - 1, 1)
        firstWeekday == getDay(firstDay)
        offset       == weekday - firstWeekday
    IN  NewDateYMD(year, month - 1, 1 + offset + (n - 1) * 7)

\* Scheduler.getNthWeekdayOfMonth
getNthWeekdayOfMonth(year, month, weekday, n) ==
    LET firstDay     == NewDateYMD(year, month - 1, 1)
        firstWeekday == getDay(firstDay)
        offset       == (weekday - firstWeekday + 7) % 7
    IN  NewDateYMD(year, month - 1, 1 + offset + (n - 1) * 7)

\* HolidayService._getNthWeekdayOfMonth
_getNthWeekdayOfMonth(year, month, weekday, n) ==
    LET firstDay     == NewDateYMD(year, month - 1, 1)
        firstWeekday == getDay(firstDay)
        offset       == (weekday - firstWeekday + 7) % 7
    IN  NewDateYMD(year, month - 1, 1 + offset + (n - 1) * 7)

\* the table _initializeFallbackHolidays builds
_initializeFallbackHolidays ==
    [kind |-> "object",
     fixedHolidays |-> << <<1, 1>>, <<2, 11>>, <<4, 29>>, <<5, 3>>, <<5, 4>>,
                          <<5, 5>>, <<8, 11>>, <<11, 3>>, <<11, 23>>,
                          <<12, 23>> >>]

\* Array.prototype.includes
includes(list, x) == \E i \in 1..Len(list) : list[i] = x

\* _isHolidayFromFallback whose January rule takes the first Monday
isHolidayFromFallbackFirstMonday(table, date) ==
    LET month == getMonth(date) + 1
        day   == getDate(date)
        year  == getFullYear(date)
    IN  \/ includes(table.fixedHolidays, <<month, day>>)
        \/ /\ month = 1 /\ getDay(date) = 1
           /\ getDate(date) = getDate(_getNthWeekdayOfMonth(year, 1, 1, 1))
        \/ /\ month = 7 /\ getDay(date) = 1
           /\ getDate(date) = getDate(_getNthWeekdayOfMonth(year, 7, 1, 3))
        \/ /\ month = 9 /\ getDay(date) = 1
           /\ getDate(date) = getDate(_getNthWeekdayOfMonth(year, 9, 1, 3))
        \/ /\ month = 10 /\ getDay(date) = 1
           /\ getDate(date) = getDate(_getNthWeekdayOfMonth(year, 10, 1, 2))

\* _isHolidayFromFallback, on the table fallbackHolidays
_isHolidayFromFallback(table, date) ==
    LET month == getMonth(date) + 1
        day   == getDate(date)
        year  == getFullYear(date)
        firstMonday  == _getNthWeekdayOfMonth(year, 1, 1, 1)
        secondMonday == setDate(firstMonday, getDate(firstMonday) + 7)
    IN  \/ includes(table.fixedHolidays, <<month, day>>)
        \/ /\ month = 1 /\ getDay(date) = 1
           /\ getDate(date) = getDate(secondMonday)
        \/ /\ month = 7 /\ getDay(date) = 1
           /\ getDate(date) = getDate(_getNthWeekdayOfMonth(year, 7, 1, 3))
        \/ /\ month = 9 /\ getDay(date) = 1
           /\ getDate(date) = getDate(_getNthWeekdayOfMonth(year, 9, 1, 3))
        \/ /\ month = 10 /\ getDay(date) = 1
           /\ getDate(date) = getDate(_getNthWeekdayOfMonth(year, 10, 1, 2))

\* _isHolidayFromJSON that looks the date up in the list of every year
isHolidayFromJSONAnyYear(data, date) ==
    LET isoDate == toISODate(date)
    IN  \E year \in DOMAIN data.holidays :
           /\ data.holidays[year].isArray
           /\ \E i \in 1..Len(data.holidays[year].items) :
                 data.holidays[year].items[i].date = isoDate

\* _isHolidayFromJSON, on the object holidayData
_isHolidayFromJSON(data, date) ==
    LET year    == getFullYear(date)
        isoDate == toISODate(date)
    IN  IF year \notin DOMAIN data.holidays THEN FALSE
        ELSE IF ~data.holidays[year].isArray THEN FALSE
        ELSE \E i \in 1..Len(data.holidays[year].items) :
                data.holidays[year].items[i].date = isoDate

\* isHoliday without the check of isInitialized
isHolidayUnguarded(date) ==
    IF holidayData.kind # "null" THEN _isHolidayFromJSON(holidayData, date)
    ELSE IF fallbackHolidays.kind # "null"
         THEN _isHolidayFromFallback(fallbackHolidays, date)
    ELSE FALSE

\* HolidayService.isHoliday
isHoliday(date) ==
    IF ~isInitialized THEN FALSE
    ELSE IF holidayData.kind # "null" THEN _isHolidayFromJSON(holidayData, date)
    ELSE IF fallbackHolidays.kind # "null"
         THEN _isHolidayFromFallback(fallbackHolidays, date)
    ELSE FALSE

\* HolidayService.getStatus
getStatus ==
    [isInitialized |-> isInitialized,
     hasJSONData |-> holidayData.kind # "null",
     hasFallbackData |-> fallbackHolidays.kind # "null",
     dataSource |-> IF holidayData.kind # "null" THEN "JSON" ELSE "fallback"]

\* HolidayService.getHolidays
getHolidays(year) ==
    IF ~isInitialized \/ holidayData.kind = "null" THEN <<>>
    ELSE IF year \notin DOMAIN holidayData.holidays THEN <<>>
    ELSE IF ~holidayData.holidays[year].isArray THEN <<>>
    ELSE holidayData.holidays[year].items

\* Scheduler._fallbackHolidayCheck
_fallbackHolidayCheck(date) ==
    LET month == getMonth(date) + 1
        day   == getDate(date)
        basicHolidays == << <<1, 1>>, <<5, 3>>, <<5, 4>>, <<5, 5>>, <<11, 3>>,
                            <<11, 23>> >>
    IN  includes(basicHolidays, <<month, day>>)

\* Scheduler.isHoliday; window.holidayService is the one HolidayService
SchedulerIsHoliday(date) ==
    IF isInitialized THEN isHoliday(date) ELSE _fallbackHolidayCheck(date)

\* a well-formed holidays.json: two years, each with its list
GoodFile ==
    LET Entry(y, m, d) == [date |-> <<y, m, d>>, name |-> "holiday"]
        Array(items)   == [isArray |-> TRUE, items |-> items]
    IN  [kind |-> "object", hasHolidays |-> TRUE,
         holidays |->
            2025 :> Array(<<Entry(2025, 11, 23), Entry(2025, 12, 31)>>)
         @@ 2026 :> Array(<<Entry(2026, 1, 1), Entry(2026, 1, 12)>>)]
\* what the fetch of ./assets/holidays.json can deliver: fetch rejects, the
\* status is not OK, the body is not JSON, or the body is a file: the
\* well-formed one, one whose value for 2026 is null, one without the
\* property holidays
Responses ==
    LET NullYearFile ==
            [GoodFile EXCEPT
                !.holidays[2026] = [isArray |-> FALSE, items |-> <<>>]]
        NoHolidaysFile ==
            [kind |-> "object", hasHolidays |-> FALSE, holidays |-> <<>>]
    IN  {[kind |-> k, data |-> NoData] : k \in {"reject", "status", "syntax"}}
           \cup {[kind |-> "json", data |-> d] :
                    d \in {GoodFile, NullYearFile, NoHolidaysFile}}
\* the time zones of the environment: UTC-1 tick, UTC, UTC+1 tick
TimeZones == {1, 0, -1}

\* the service as its constructor leaves it
InitService(r, tz) ==
    /\ holidayData = NoData
    /\ fallbackHolidays = NoTable
    /\ isInitialized = FALSE
    /\ initPromise = FALSE
    /\ loadPc = "idle"
    /\ response = r
    /\ tzOffset = tz

(***************************************************************************)
(* HolidayFetcher.parseCSV                                                 *)
(*                                                                         *)
(* The CSV text is the sequence of its lines, the header first.  A line is *)
(* [date, name]: the numbers parseInt reads from the '/'-separated parts   *)
(* of its first field (NaN for a part that is no number, no part at all    *)
(* for an empty field) and its second field ("" when missing or empty).    *)
(***************************************************************************)
\* parseInt's NaN: every comparison with it is false
NaN == -1000000

parseCSV(lines) ==
    LET currentYear == getFullYear(NewDate(now))
        \* the line passes every `continue` of the loop
        Kept(line) ==
            /\ line.date # <<>>
            /\ line.name # ""
            /\ Len(line.date) = 3
            /\ LET year  == line.date[1]
                   month == line.date[2]
                   day   == line.date[3]
               IN  /\ ~(year # NaN /\ year < currentYear)
                   /\ NaN \notin {year, month, day}
                   /\ LET dateObj == NewDateYMD(year, month - 1, day)
                      IN  /\ getFullYear(dateObj) = year
                          /\ getMonth(dateObj) = month - 1
                          /\ getDate(dateObj) = day
        Holiday(line) ==
            [date |-> toISODate(NewDateYMD(line.date[1], line.date[2] - 1,
                                           line.date[3])),
             name |-> line.name]
        \* a.date.localeCompare(b.date) < 0 on strings YYYY-MM-DD
        Before(a, b) ==
            \/ a.date[1] < b.date[1]
            \/ a.date[1] = b.date[1] /\ a.date[2] < b.date[2]
            \/ a.date[1] = b.date[1] /\ a.date[2] = b.date[2]
                  /\ a.date[3] < b.date[3]
        RECURSIVE Insert(_, _)
        Insert(list, x) ==
            IF list = <<>> THEN <<x>>
            ELSE IF Before(x, Head(list)) THEN <<x>> \o list
                 ELSE <<Head(list)>> \o Insert(Tail(list), x)
        RECURSIVE Sort(_)
        Sort(list) ==
            IF list = <<>> THEN <<>>
            ELSE Insert(Sort(SubSeq(list, 1, Len(list) - 1)), list[Len(list)])
        \* the rows behind the header, in order
        rows  == SelectSeq(SubSeq(lines, 2, Len(lines)), Kept)
        years == {rows[i].date[1] : i \in 1..Len(rows)}
        Pushed(year) ==
            LET ofYear == SelectSeq(rows, LAMBDA line : line.date[1] = year)
            IN  [i \in 1..Len(ofYear) |-> Holiday(ofYear[i])]
    IN  [year \in years |-> Sort(Pushed(year))]

\* fetchCSV: the request is answered by `first`; when that throws (the fetch
\* rejects, the status is not OK, the body cannot be read or decoded) the
\* catch sends the request again and takes the text of whatever response
\* `second` is; only a rejected fetch makes it throw
fetchCSV(first, second) ==
    IF first.kind = "ok" THEN [threw |-> FALSE, csvText |-> first.body]
    ELSE IF second.kind = "error" THEN [threw |-> TRUE, csvText |-> <<>>]
    ELSE [threw |-> FALSE, csvText |-> second.body]

\* generateJSON: the content written to assets/holidays.json
generateJSON(holidays) ==
    [lastUpdated |-> toISODate(NewDate(now)), holidays |-> holidays]

(***************************************************************************)
(* ScheduleApp: state                                                      *)
(***************************************************************************)
\* null for selectionStart / selectionEnd
Null == [day |-> -1, hour |-> -1, minute |-> -1]
\* no candidate (lastOp only)
NoCand == [id |-> 0, date |-> [day |-> 0, tod |-> 0], startHour |-> 0,
           startMinute |-> 0, endHour |-> 0, endMinute |-> 0,
           isFullDay |-> FALSE, dayOffset |-> -1]
NoOp == [op |-> "none", a |-> 0, b |-> 0, day |-> -1, cand |-> NoCand]

\* the minutes of the day of the cells of one day column
SlotTimes == {generateTimeSlots[i].hour * 60 + generateTimeSlots[i].minute :
                 i \in 1..Len(generateTimeSlots)}
\* the time cells of the grid: (day column, minutes of the day)
Cells == (0..6) \X SlotTimes
\* cellMark maps the cells that carry the class 'selected' to their
\* data-candidate-id; no cell is marked
NoMarks == <<>>
MarkOf(marks, cell) == IF cell \in DOMAIN marks THEN marks[cell] ELSE 0

\* the cells and day columns the modelled pointer touches
DragTimes == {540, 1080}
DragCells == DragTimes \cap SlotTimes
DragDays == {0}
\* the day columns the pointer moves over during a drag
OverDays == {0, 1}
\* the moments the app is constructed at: Wednesday 2025-12-31, first tick
StartTimes == {DaysFromCivil(2025, 12, 31) * TicksPerDay}

(***************************************************************************)
(* ScheduleApp: helpers                                                    *)
(***************************************************************************)
\* updateCandidatesList: the merged entries the list shows, each with its
\* remove button
updateCandidatesList(store) ==
    IF Len(store) = 0 THEN <<>> ELSE mergeContinuousCandidates(store)

\* markSelectedCells: marks the cells start <= cell < end of the candidate's
\* day column with its id
markSelectedCells(marks, candidate) ==
    LET hit == {cell \in {candidate.dayOffset} \X SlotTimes :
                   /\ cell \in Cells
                   /\ cell[2] >= StartMinutes(candidate)
                   /\ cell[2] < EndMinutes(candidate)}
    IN  [cell \in DOMAIN marks \cup hit |->
            IF cell \in hit THEN candidate.id ELSE marks[cell]]

\* clearSelectedCells(candidateId)
clearSelectedCells(marks, candidateId) ==
    [cell \in {c \in DOMAIN marks : marks[c] # candidateId} |-> marks[cell]]

\* Array.prototype.find / findIndex: the first of the indices that satisfy,
\* 0 if none does
FirstIndex(hits) ==
    IF hits = {} THEN 0 ELSE CHOOSE i \in hits : \A j \in hits : i <= j

RECURSIVE ReapplyLoop(_, _, _)
\* reapplySelectedCells: the candidates of the store, in order, re-marked in
\* the column that shows their date
ReapplyLoop(marks, store, weekDates) ==
    IF store = <<>> THEN marks
    ELSE LET candidate == Head(store)
             dayIndex  == FirstIndex({i \in 1..Len(weekDates) :
                             getDateKey(weekDates[i]) = getDateKey(candidate.date)}) - 1
             marked    == IF dayIndex >= 0
                          THEN markSelectedCells(marks,
                                   [candidate EXCEPT !.dayOffset = dayIndex])
                          ELSE marks
         IN  ReapplyLoop(marked, Tail(store), weekDates)

reapplySelectedCells(store, ref) == ReapplyLoop(NoMarks, store, getWeekDates(ref))

\* the filter of removeMergedCandidate without the comparison of the dates
RemovedAnyDate(candidate, mergedCandidate) ==
    /\ StartMinutes(candidate) >= StartMinutes(mergedCandidate)
    /\ EndMinutes(candidate) <= EndMinutes(mergedCandidate)

\* the filter of removeMergedCandidate: on the merged entry's date, inside
\* its span
Removed(candidate, mergedCandidate) ==
    /\ getDateKey(candidate.date) = getDateKey(mergedCandidate.date)
    /\ StartMinutes(candidate) >= StartMinutes(mergedCandidate)
    /\ EndMinutes(candidate) <= EndMinutes(mergedCandidate)

RECURSIVE ClearAll(_, _)
ClearAll(marks, cands) ==
    IF cands = <<>> THEN marks
    ELSE ClearAll(clearSelectedCells(marks, Head(cands).id), Tail(cands))

(***************************************************************************)
(* ScheduleApp: operations                                                 *)
(***************************************************************************)
AppState == <<currentWeek, selectedCandidates, isSelecting, selectionStart,
              selectionEnd, timeCells, cellMark, headerSelected,
              candidatesDisplay, appPc, resetDate, netWeeks>>

InitApp(t) ==
    /\ startTime = t
    /\ now = t
    /\ currentWeek = NewDate(t)
    /\ resetDate = NewDate(t)
    /\ netWeeks = 0
    /\ selectedCandidates = <<>>
    /\ isSelecting = FALSE
    /\ selectionStart = Null
    /\ selectionEnd = Null
    /\ timeCells = <<>>
    /\ cellMark = NoMarks
    /\ headerSelected = [d \in 0..6 |-> FALSE]
    /\ candidatesDisplay = <<>>
    /\ appPc = "init"
    /\ lastOp = NoOp

\* the clock advances
Tick ==
    /\ now < startTime + MaxTicks
    /\ now' = now + 1
    /\ lastOp' = NoOp
    /\ UNCHANGED <<AppState, startTime, arg, res, ServiceState>>

\* init(): listeners registered, calendar rendered
AppInit ==
    /\ appPc = "init"
    /\ appPc' = "ready"
    /\ timeCells' = generateTimeSlots
    /\ cellMark' = NoMarks
    /\ lastOp' = NoOp
    /\ UNCHANGED <<now, currentWeek, selectedCandidates, isSelecting,
                   selectionStart, selectionEnd, headerSelected,
                   candidatesDisplay, resetDate, netWeeks, startTime, arg, res, ServiceState>>

\* removeCandidate(id), the part of it that changes the store and the DOM
removeCandidate(id) ==
    /\ cellMark' = clearSelectedCells(cellMark, id)
    /\ selectedCandidates' = SelectSeq(selectedCandidates, LAMBDA c : c.id # id)
    /\ candidatesDisplay' = updateCandidatesList(selectedCandidates')

\* mousedown on the cell (day, t)
startSelection(day, t) ==
    /\ appPc = "ready"
    /\ lastOp' = NoOp
    /\ IF MarkOf(cellMark, <<day, t>>) # 0
       THEN /\ IF \E i \in 1..Len(selectedCandidates) :
                     selectedCandidates[i].id = MarkOf(cellMark, <<day, t>>)
               THEN removeCandidate(MarkOf(cellMark, <<day, t>>))
               ELSE UNCHANGED <<cellMark, selectedCandidates, candidatesDisplay>>
            /\ UNCHANGED <<isSelecting, selectionStart, selectionEnd>>
       ELSE /\ isSelecting' = TRUE
            /\ selectionStart' = [day |-> day, hour |-> t \div 60, minute |-> t % 60]
            /\ selectionEnd' = selectionStart'
            /\ UNCHANGED <<cellMark, selectedCandidates, candidatesDisplay>>
    /\ UNCHANGED <<now, currentWeek, timeCells, headerSelected, appPc,
                   resetDate, netWeeks, startTime, arg, res, ServiceState>>

\* updateSelection that lets the selection follow the pointer to another day
updateSelectionAnyDay(day, t) ==
    /\ appPc = "ready"
    /\ isSelecting
    /\ selectionStart' = [selectionStart EXCEPT !.day = day]
    /\ selectionEnd' = [day |-> day, hour |-> t \div 60, minute |-> t % 60]
    /\ lastOp' = NoOp
    /\ UNCHANGED <<now, currentWeek, selectedCandidates, isSelecting,
                   timeCells, cellMark, headerSelected, candidatesDisplay,
                   appPc, resetDate, netWeeks, startTime, arg, res,
                   ServiceState>>

\* mouseover on the cell (day, t) while a selection is in progress
updateSelection(day, t) ==
    /\ appPc = "ready"
    /\ isSelecting
    /\ day = selectionStart.day
    /\ selectionEnd' = [day |-> day, hour |-> t \div 60, minute |-> t % 60]
    /\ lastOp' = NoOp
    /\ UNCHANGED <<now, currentWeek, selectedCandidates, isSelecting,
                   selectionStart, timeCells, cellMark, headerSelected,
                   candidatesDisplay, appPc, resetDate, netWeeks, startTime,
                   arg, res, ServiceState>>

\* addCandidate that extends the end of a drag but not of a single click
NewCandidateClickNotExtended ==
    LET startT    == selectionStart.hour * 60 + selectionStart.minute
        endT      == selectionEnd.hour * 60 + selectionEnd.minute
        minTime   == Min(startT, endT)
        maxTime   == IF startT = endT THEN minTime
                     ELSE Max(startT, endT) + dragStep
        weekDates == getWeekDates(currentWeek)
    IN  [id |-> now,
         date |-> weekDates[selectionStart.day + 1],
         startHour |-> minTime \div 60, startMinute |-> minTime % 60,
         endHour |-> maxTime \div 60, endMinute |-> maxTime % 60,
         isFullDay |-> FALSE,
         dayOffset |-> selectionStart.day]

\* the candidate addCandidate builds from the selection
NewCandidate ==
    LET startT    == selectionStart.hour * 60 + selectionStart.minute
        endT      == selectionEnd.hour * 60 + selectionEnd.minute
        minTime   == Min(startT, endT)
        maxTime   == IF startT = endT THEN minTime + dragStep
                     ELSE Max(startT, endT) + dragStep
        weekDates == getWeekDates(currentWeek)
    IN  [id |-> now,
         date |-> weekDates[selectionStart.day + 1],
         startHour |-> minTime \div 60, startMinute |-> minTime % 60,
         endHour |-> maxTime \div 60, endMinute |-> maxTime % 60,
         isFullDay |-> FALSE,
         dayOffset |-> selectionStart.day]

addCandidate ==
    LET candidate == NewCandidate
    IN  /\ selectedCandidates' = sortCandidates(Append(selectedCandidates, candidate))
        /\ candidatesDisplay' = updateCandidatesList(selectedCandidates')
        /\ cellMark' = markSelectedCells(cellMark, candidate)
        /\ selectionStart' = Null
        /\ selectionEnd' = Null
        /\ lastOp' = [op |-> "addCandidate",
                      a |-> selectionStart.hour * 60 + selectionStart.minute,
                      b |-> selectionEnd.hour * 60 + selectionEnd.minute,
                      day |-> selectionStart.day, cand |-> candidate]

\* endSelection(): nothing when no selection is in progress, else the
\* selection ends and its candidate is added
endSelection ==
    IF ~isSelecting
    THEN UNCHANGED <<now, currentWeek, selectedCandidates, isSelecting,
                     selectionStart, selectionEnd, timeCells, cellMark,
                     headerSelected, candidatesDisplay, lastOp, resetDate,
                     netWeeks, startTime, arg, res, ServiceState>>
    ELSE /\ Len(selectedCandidates) < MaxCandidates
         /\ isSelecting' = FALSE
         /\ IF selectionStart # Null /\ selectionEnd # Null
            THEN addCandidate
            ELSE /\ lastOp' = NoOp
                 /\ UNCHANGED <<selectedCandidates, candidatesDisplay,
                                cellMark, selectionStart, selectionEnd>>
         /\ UNCHANGED <<now, currentWeek, timeCells, headerSelected,
                        resetDate, netWeeks, startTime, arg, res,
                        ServiceState>>

\* one mouseup listener runs.  A release over a time cell while a selection
\* is in progress runs the cell's listener, endSelection(event), and then
\* bubbles to the document; the document's listener,
\* if (isSelecting) endSelection(), runs for the release that bubbled up
\* from a cell and for a release outside the grid
mouseup(listener) ==
    /\ IF listener = "cell" THEN appPc = "ready" /\ isSelecting
       ELSE IF appPc = "ready" THEN isSelecting ELSE appPc = "bubble"
    /\ appPc' = IF listener = "cell" THEN "bubble" ELSE "ready"
    /\ endSelection

cellMouseUp == mouseup("cell")

documentMouseUp == mouseup("document")

\* click on the header of day column dayIndex
selectFullDay(dayIndex) ==
    LET selectedDate == getWeekDates(currentWeek)[dayIndex + 1]
        Existing(c)  == /\ c.isFullDay
                        /\ c.dayOffset = dayIndex
                        /\ getDateKey(c.date) = getDateKey(selectedDate)
        found        == FirstIndex({i \in 1..Len(selectedCandidates) :
                                        Existing(selectedCandidates[i])})
        candidate    == [id |-> now, date |-> selectedDate,
                         startHour |-> fullDayStartHour, startMinute |-> 0,
                         endHour |-> fullDayEndHour, endMinute |-> 0,
                         isFullDay |-> TRUE, dayOffset |-> dayIndex]
    IN  /\ appPc = "ready"
        /\ IF found # 0
           THEN /\ selectedCandidates' =
                      SelectSeq(selectedCandidates,
                                LAMBDA c : c.id # selectedCandidates[found].id)
                /\ headerSelected' = [headerSelected EXCEPT ![dayIndex] = FALSE]
           ELSE /\ Len(selectedCandidates) < MaxCandidates
                /\ selectedCandidates' = Append(selectedCandidates, candidate)
                /\ headerSelected' = [headerSelected EXCEPT ![dayIndex] = TRUE]
        /\ candidatesDisplay' = updateCandidatesList(selectedCandidates')
        /\ lastOp' = NoOp
        /\ UNCHANGED <<now, currentWeek, isSelecting, selectionStart,
                       selectionEnd, timeCells, cellMark, appPc, resetDate,
                       netWeeks, startTime, arg, res, ServiceState>>

\* click on the remove button of the i-th line of the candidate list
removeMergedCandidate(i) ==
    LET mergedCandidate    == candidatesDisplay[i]
        candidatesToRemove == SelectSeq(selectedCandidates,
                                  LAMBDA c : Removed(c, mergedCandidate))
        fullDay            == FirstIndex({k \in 1..Len(candidatesToRemove) :
                                              candidatesToRemove[k].isFullDay})
    IN  /\ appPc = "ready"
        /\ i \in 1..Len(candidatesDisplay)
        /\ headerSelected' =
              IF fullDay # 0 /\ candidatesToRemove[fullDay].dayOffset \in 0..6
              THEN [headerSelected EXCEPT
                       ![candidatesToRemove[fullDay].dayOffset] = FALSE]
              ELSE headerSelected
        /\ cellMark' = ClearAll(cellMark, candidatesToRemove)
        /\ selectedCandidates' =
              SelectSeq(selectedCandidates, LAMBDA c : ~Removed(c, mergedCandidate))
        /\ candidatesDisplay' = updateCandidatesList(selectedCandidates')
        /\ lastOp' = [NoOp EXCEPT !.op = "removeMerged", !.cand = mergedCandidate]
        /\ UNCHANGED <<now, currentWeek, isSelecting, selectionStart,
                       selectionEnd, timeCells, appPc, resetDate, netWeeks,
                       startTime, arg, res, ServiceState>>

resetAll ==
    /\ appPc = "ready"
    /\ cellMark' = NoMarks
    /\ selectedCandidates' = <<>>
    /\ candidatesDisplay' = updateCandidatesList(selectedCandidates')
    /\ headerSelected' = [d \in 0..6 |-> FALSE]
    /\ lastOp' = NoOp
    /\ UNCHANGED <<now, currentWeek, isSelecting, selectionStart, selectionEnd,
                   timeCells, appPc, resetDate, netWeeks, startTime, arg, res, ServiceState>>

\* what the three navigation handlers do after the scheduler has moved:
\* renderCalendar (new, unmarked cells), reapplySelectedCells
Rerender ==
    /\ timeCells' = generateTimeSlots
    /\ cellMark' = reapplySelectedCells(selectedCandidates, currentWeek')
    /\ UNCHANGED <<now, selectedCandidates, isSelecting, selectionStart,
                   selectionEnd, headerSelected, candidatesDisplay, appPc,
                   startTime, arg, res, ServiceState>>

PrevWeekWithin(bound) ==
    /\ appPc = "ready"
    /\ netWeeks > -bound
    /\ currentWeek' = moveToPreviousWeek(currentWeek)
    /\ netWeeks' = netWeeks - 1
    /\ lastOp' = [NoOp EXCEPT !.op = "prev"]
    /\ UNCHANGED resetDate
    /\ Rerender

NextWeekWithin(bound) ==
    /\ appPc = "ready"
    /\ netWeeks < bound
    /\ currentWeek' = moveToNextWeek(currentWeek)
    /\ netWeeks' = netWeeks + 1
    /\ lastOp' = [NoOp EXCEPT !.op = "next"]
    /\ UNCHANGED resetDate
    /\ Rerender

PrevWeek == PrevWeekWithin(MaxNav)
NextWeek == NextWeekWithin(MaxNav)

ThisWeek ==
    /\ appPc = "ready"
    /\ currentWeek' = moveToThisWeek(now)
    /\ resetDate' = currentWeek'
    /\ netWeeks' = 0
    /\ lastOp' = [NoOp EXCEPT !.op = "today"]
    /\ Rerender

Init ==
    /\ \E t \in StartTimes : InitApp(t)
    /\ arg = <<>>
    /\ res = [fn |-> "none", out |-> <<>>]
    /\ InitService([kind |-> "json", data |-> GoodFile], 0)

Next ==
    \/ Tick
    \/ AppInit
    \/ \E day \in DragDays, t \in DragCells : startSelection(day, t)
    \/ \E day \in OverDays, t \in DragCells : updateSelection(day, t)
    \/ \E listener \in {"cell", "document"} : mouseup(listener)
    \/ \E dayIndex \in DragDays : selectFullDay(dayIndex)
    \/ \E i \in 1..MaxCandidates : removeMergedCandidate(i)
    \/ resetAll
    \/ PrevWeek
    \/ NextWeek
    \/ ThisWeek

Spec == Init /\ [][Next]_vars

(***************************************************************************)
(* Navigation only: the app constructed on any day of two stretches that   *)
(* cross a year boundary and a leap day, at the first or the last tick of  *)
(* the day, then week navigation.                                          *)
(***************************************************************************)
NavStartDays ==
    (DaysFromCivil(2025, 12, 22) .. DaysFromCivil(2026, 1, 11))
        \cup (DaysFromCivil(2024, 2, 24) .. DaysFromCivil(2024, 3, 5))

InitNav ==
    /\ \E d \in NavStartDays, tod \in {0, TicksPerDay - 1} :
          InitApp(d * TicksPerDay + tod)
    /\ arg = <<>>
    /\ res = [fn |-> "none", out |-> <<>>]
    /\ InitService([kind |-> "json", data |-> GoodFile], 0)

PrevWeekNav == PrevWeekWithin(NavBound)
NextWeekNav == NextWeekWithin(NavBound)

NextNav ==
    \/ Tick
    \/ AppInit
    \/ PrevWeekNav
    \/ NextWeekNav
    \/ ThisWeek

SpecNav == InitNav /\ [][NextNav]_vars

(***************************************************************************)
(* The TextGenerator functions applied to candidate lists: every list of   *)
(* at most MaxLen candidates of a pool of well-formed candidates.          *)
(***************************************************************************)
PoolDay == DaysFromCivil(2025, 12, 29)
\* two Dates on one calendar day that differ in the time of day, and the
\* day after
PoolDates == {[day |-> PoolDay, tod |-> 0], [day |-> PoolDay, tod |-> 1],
              [day |-> PoolDay + 1, tod |-> 0]}
\* 9:00-10:00, 10:00-11:00, 10:15-11:00, 9:30-10:30, 9:00-11:00
PoolRanges == {<<540, 600>>, <<600, 660>>, <<615, 660>>, <<570, 630>>,
               <<540, 660>>}
Pool == {[id |-> 1, date |-> d, startHour |-> r[1] \div 60,
          startMinute |-> r[1] % 60, endHour |-> r[2] \div 60,
          endMinute |-> r[2] % 60, isFullDay |-> FALSE,
          dayOffset |-> getDay(d) - 1] : d \in PoolDates, r \in PoolRanges}
PoolLists == UNION {[1..n -> Pool] : n \in 0..MaxLen}

InitText ==
    /\ \E t \in StartTimes : InitApp(t)
    /\ arg \in PoolLists
    /\ res = [fn |-> "none", out |-> <<>>]
    /\ InitService([kind |-> "json", data |-> GoodFile], 0)

CallSortCandidates ==
    /\ res' = [fn |-> "sortCandidates", out |-> sortCandidates(arg)]
    /\ UNCHANGED <<now, AppState, lastOp, startTime, arg, ServiceState>>

CallMergeContinuousCandidates ==
    /\ res' = [fn |-> "mergeContinuousCandidates",
               out |-> mergeContinuousCandidates(arg)]
    /\ UNCHANGED <<now, AppState, lastOp, startTime, arg, ServiceState>>

CallCheckTimeConflicts ==
    /\ res' = [fn |-> "checkTimeConflicts", out |-> checkTimeConflicts(arg)]
    /\ UNCHANGED <<now, AppState, lastOp, startTime, arg, ServiceState>>

NextText ==
    \/ CallSortCandidates
    \/ CallMergeContinuousCandidates
    \/ CallCheckTimeConflicts

SpecText == InitText /\ [][NextText]_vars

(***************************************************************************)
(* The Scheduler's validity functions applied to hours and minutes inside, *)
(* on the edges of and outside the time range.                             *)
(***************************************************************************)
InitValid ==
    /\ \E t \in StartTimes : InitApp(t)
    /\ InitService([kind |-> "json", data |-> GoodFile], 0)
    /\ \E sH, eH \in {8, 9, 10, 17, 18, 19}, sM, eM \in {-15, 0, 7, 15, 45, 60} :
          arg = <<sH, sM, eH, eM>>
    /\ res = [fn |-> "none", out |-> FALSE]

CallIsValidTime ==
    /\ res' = [fn |-> "isValidTime", out |-> isValidTime(arg[1], arg[2])]
    /\ UNCHANGED <<now, AppState, lastOp, startTime, arg, ServiceState>>

CallIsValidTimeRange ==
    /\ res' = [fn |-> "isValidTimeRange",
               out |-> isValidTimeRange(arg[1], arg[2], arg[3], arg[4])]
    /\ UNCHANGED <<now, AppState, lastOp, startTime, arg, ServiceState>>

NextValid ==
    \/ CallIsValidTime
    \/ CallIsValidTimeRange

SpecValid == InitValid /\ [][NextValid]_vars

(***************************************************************************)
(* The HolidayService from its construction on: initialize() calls, the    *)
(* steps of the one load (the fetch settles, the JSON body settles, the    *)
(* awaiting _performInitialization goes on or catches) and holiday queries *)
(* at any moment, under every answer of the fetch and in three time zones. *)
(* loadPc is the place the load is at; arg and res are the Date and the    *)
(* result of the last query, lastOp.op the call the last step made.        *)
(***************************************************************************)
\* the Dates asked about: around the turn of the year 2025/2026, the first
\* and second Monday of January 2026 and a day of a year no file lists, each
\* at the first and at the last tick of the day
QueryDates ==
    {[day |-> d, tod |-> t] :
        d \in {DaysFromCivil(2025, 12, 31), DaysFromCivil(2026, 1, 1),
               DaysFromCivil(2026, 1, 2), DaysFromCivil(2026, 1, 5),
               DaysFromCivil(2026, 1, 12), DaysFromCivil(2027, 1, 1)},
        t \in {0, TicksPerDay - 1}}

InitHoliday ==
    /\ \E t \in StartTimes : InitApp(t)
    /\ \E r \in Responses, tz \in TimeZones : InitService(r, tz)
    /\ arg = [day |-> 0, tod |-> 0]
    /\ res = [fn |-> "none", out |-> FALSE]

\* initialize() that starts _performInitialization at every call
initializeEveryCall ==
    /\ initPromise' = TRUE
    /\ loadPc' = "fetch"
    /\ lastOp' = [NoOp EXCEPT !.op = "initialize"]
    /\ res' = [fn |-> "initialize", out |-> TRUE]
    /\ UNCHANGED <<now, AppState, startTime, arg, holidayData,
                   fallbackHolidays, isInitialized, response, tzOffset>>

\* initialize(): returns at once when initialized or when a load is in
\* flight, else starts _performInitialization, which runs up to the fetch
initialize ==
    /\ IF ~isInitialized /\ ~initPromise
       THEN /\ initPromise' = TRUE
            /\ loadPc' = "fetch"
       ELSE UNCHANGED <<initPromise, loadPc>>
    /\ lastOp' = [NoOp EXCEPT !.op = "initialize"]
    /\ res' = [fn |-> "initialize", out |-> ~isInitialized /\ ~initPromise]
    /\ UNCHANGED <<now, AppState, startTime, arg, holidayData,
                   fallbackHolidays, isInitialized, response, tzOffset>>

\* _loadHolidayJSON: the fetch settles; a rejection and a status that is not
\* OK throw
LoadFetchSettles ==
    /\ loadPc = "fetch"
    /\ loadPc' = IF response.kind \in {"reject", "status"} THEN "catch"
                 ELSE "json"
    /\ lastOp' = NoOp
    /\ UNCHANGED <<now, AppState, startTime, arg, res, holidayData,
                   fallbackHolidays, isInitialized, initPromise, response,
                   tzOffset>>

\* _loadHolidayJSON: response.json() settles; a body that is not JSON and a
\* file without holidays throw, else holidayData is assigned and the
\* statistics read the length of every year's value, which throws on null
LoadJsonSettles ==
    /\ loadPc = "json"
    /\ IF response.kind = "syntax" \/ ~response.data.hasHolidays
       THEN /\ loadPc' = "catch"
            /\ UNCHANGED holidayData
       ELSE /\ holidayData' = response.data
            /\ loadPc' = IF \E year \in DOMAIN response.data.holidays :
                                ~response.data.holidays[year].isArray
                         THEN "catch" ELSE "resume"
    /\ lastOp' = NoOp
    /\ UNCHANGED <<now, AppState, startTime, arg, res, fallbackHolidays,
                   isInitialized, initPromise, response, tzOffset>>

\* _performInitialization after the await: the load returned
PerformInitializationResumes ==
    /\ loadPc = "resume"
    /\ isInitialized' = TRUE
    /\ loadPc' = "done"
    /\ lastOp' = NoOp
    /\ UNCHANGED <<now, AppState, startTime, arg, res, holidayData,
                   fallbackHolidays, initPromise, response, tzOffset>>

\* _performInitialization after the await: the load threw
PerformInitializationCatches ==
    /\ loadPc = "catch"
    /\ fallbackHolidays' = _initializeFallbackHolidays
    /\ isInitialized' = TRUE
    /\ loadPc' = "done"
    /\ lastOp' = NoOp
    /\ UNCHANGED <<now, AppState, startTime, arg, res, holidayData,
                   initPromise, response, tzOffset>>

CallIsHoliday(date) ==
    /\ arg' = date
    /\ res' = [fn |-> "isHoliday", out |-> isHoliday(date)]
    /\ lastOp' = [NoOp EXCEPT !.op = "isHoliday"]
    /\ UNCHANGED <<now, AppState, startTime, ServiceState>>

CallSchedulerIsHoliday(date) ==
    /\ arg' = date
    /\ res' = [fn |-> "Scheduler.isHoliday", out |-> SchedulerIsHoliday(date)]
    /\ lastOp' = [NoOp EXCEPT !.op = "Scheduler.isHoliday"]
    /\ UNCHANGED <<now, AppState, startTime, ServiceState>>

CallGetStatus ==
    /\ res' = [fn |-> "getStatus", out |-> getStatus]
    /\ lastOp' = [NoOp EXCEPT !.op = "getStatus"]
    /\ UNCHANGED <<now, AppState, startTime, arg, ServiceState>>

CallGetHolidays(year) ==
    /\ res' = [fn |-> "getHolidays", out |-> getHolidays(year)]
    /\ lastOp' = [NoOp EXCEPT !.op = "getHolidays"]
    /\ UNCHANGED <<now, AppState, startTime, arg, ServiceState>>

NextHoliday ==
    \/ initialize
    \/ LoadFetchSettles
    \/ LoadJsonSettles
    \/ PerformInitializationResumes
    \/ PerformInitializationCatches
    \/ \E date \in QueryDates : CallIsHoliday(date)
    \/ \E date \in QueryDates : CallSchedulerIsHoliday(date)
    \/ CallGetStatus
    \/ \E year \in {2025, 2026, 2027} : CallGetHolidays(year)

SpecHoliday == InitHoliday /\ [][NextHoliday]_vars

(***************************************************************************)
(* The start of the app on top of the service: the constructor's init()    *)
(* calls holidayService.initialize() and awaits it, the load takes its     *)
(* steps, init() goes on (listeners, first render of the calendar with its *)
(* holiday queries) and the week is navigated.  res holds the answers the  *)
(* first render got for the seven day columns.                             *)
(***************************************************************************)
\* init() that does not wait for initializeHolidayService()
initializeHolidayServiceNotAwaited == TRUE

\* await initializeHolidayService(): init() goes on when the promise that
\* initialize() returned has settled, which it does when
\* _performInitialization has run to its end
initializeHolidayService == initPromise /\ loadPc = "done"

\* updateDateHeaders: the holiday query of each of the seven day columns
updateDateHeaders ==
    [i \in 1..7 |-> SchedulerIsHoliday(getWeekDates(currentWeek)[i])]

\* init() after the await: setupEventListeners, renderCalendar
init ==
    /\ appPc = "init"
    /\ initializeHolidayService
    /\ appPc' = "ready"
    /\ timeCells' = generateTimeSlots
    /\ cellMark' = NoMarks
    /\ res' = [fn |-> "updateDateHeaders", out |-> updateDateHeaders]
    /\ lastOp' = NoOp
    /\ UNCHANGED <<now, currentWeek, selectedCandidates, isSelecting,
                   selectionStart, selectionEnd, headerSelected,
                   candidatesDisplay, resetDate, netWeeks, startTime, arg,
                   ServiceState>>

NextStartup ==
    \/ Tick
    \/ initialize
    \/ LoadFetchSettles
    \/ LoadJsonSettles
    \/ PerformInitializationResumes
    \/ PerformInitializationCatches
    \/ init
    \/ PrevWeekNav
    \/ NextWeekNav
    \/ ThisWeek

SpecStartup == InitHoliday /\ [][NextStartup]_vars

(***************************************************************************)
(* The fallback rules applied to every day of the years 2024 (a leap       *)
(* year), 2025 and 2026, at the first and at the last tick of the day.     *)
(***************************************************************************)
InitFallback ==
    /\ \E t \in StartTimes : InitApp(t)
    /\ InitService([kind |-> "reject", data |-> NoData], 0)
    /\ \E d \in DaysFromCivil(2024, 1, 1)..DaysFromCivil(2026, 12, 31),
          t \in {0, TicksPerDay - 1} : arg = [day |-> d, tod |-> t]
    /\ res = [fn |-> "none", out |-> FALSE]

CallIsHolidayFromFallback ==
    /\ res' = [fn |-> "_isHolidayFromFallback",
               out |-> _isHolidayFromFallback(_initializeFallbackHolidays, arg)]
    /\ UNCHANGED <<now, AppState, lastOp, startTime, arg, ServiceState>>

CallFallbackHolidayCheck ==
    /\ res' = [fn |-> "_fallbackHolidayCheck", out |-> _fallbackHolidayCheck(arg)]
    /\ UNCHANGED <<now, AppState, lastOp, startTime, arg, ServiceState>>

NextFallback ==
    \/ CallIsHolidayFromFallback
    \/ CallFallbackHolidayCheck

SpecFallback == InitFallback /\ [][NextFallback]_vars

(***************************************************************************)
(* The two copies of getNthWeekdayOfMonth applied to every month of three  *)
(* years, every weekday and n = 1..5: arg is <<year, month, weekday, n>>.  *)
(***************************************************************************)
InitNth ==
    /\ \E t \in StartTimes : InitApp(t)
    /\ InitService([kind |-> "json", data |-> GoodFile], 0)
    /\ \E year \in 2024..2026, month \in 1..12, weekday \in 0..6, n \in 1..5 :
          arg = <<year, month, weekday, n>>
    /\ res = [fn |-> "none", out |-> [day |-> 0, tod |-> 0]]

CallGetNthWeekdayOfMonth ==
    /\ res' = [fn |-> "getNthWeekdayOfMonth",
               out |-> getNthWeekdayOfMonth(arg[1], arg[2], arg[3], arg[4])]
    /\ UNCHANGED <<now, AppState, lastOp, startTime, arg, ServiceState>>

CallServiceGetNthWeekdayOfMonth ==
    /\ res' = [fn |-> "_getNthWeekdayOfMonth",
               out |-> _getNthWeekdayOfMonth(arg[1], arg[2], arg[3], arg[4])]
    /\ UNCHANGED <<now, AppState, lastOp, startTime, arg, ServiceState>>

NextNth ==
    \/ CallGetNthWeekdayOfMonth
    \/ CallServiceGetNthWeekdayOfMonth

SpecNth == InitNth /\ [][NextNth]_vars

(***************************************************************************)
(* The batch renderers applied to the same candidate lists.                *)
(***************************************************************************)
CallFormatCandidates ==
    /\ res' = [fn |-> "formatCandidates", out |-> formatCandidates(arg)]
    /\ UNCHANGED <<now, AppState, lastOp, startTime, arg, ServiceState>>

CallFormatByDate ==
    /\ res' = [fn |-> "formatByDate", out |-> formatByDate(arg)]
    /\ UNCHANGED <<now, AppState, lastOp, startTime, arg, ServiceState>>

CallFormatForEmail ==
    /\ res' = [fn |-> "formatForEmail", out |-> formatForEmail(arg)]
    /\ UNCHANGED <<now, AppState, lastOp, startTime, arg, ServiceState>>

CallFormatForChat ==
    /\ res' = [fn |-> "formatForChat", out |-> formatForChat(arg)]
    /\ UNCHANGED <<now, AppState, lastOp, startTime, arg, ServiceState>>

NextFormat ==
    \/ CallFormatCandidates
    \/ CallFormatByDate
    \/ CallFormatForEmail
    \/ CallFormatForChat

SpecFormat == InitText /\ [][NextFormat]_vars

(***************************************************************************)
(* parseCSV applied to every text of a header and at most MaxRows data     *)
(* lines, in three time zones, in the year 2025.                           *)
(***************************************************************************)
\* data lines: blank, without a name, a two-part date, an impossible date, a
\* part that is no number, a year before the current one, and valid ones of
\* this and the next year
CsvLines ==
    {[date |-> <<>>, name |-> ""],
     [date |-> <<2025, 1, 1>>, name |-> ""],
     [date |-> <<2025, 1>>, name |-> "a"],
     [date |-> <<2025, 2, 30>>, name |-> "a"],
     [date |-> <<NaN, 1, 1>>, name |-> "a"],
     [date |-> <<2024, 12, 31>>, name |-> "a"],
     [date |-> <<2025, 5, 3>>, name |-> "a"],
     [date |-> <<2025, 1, 1>>, name |-> "a"],
     [date |-> <<2026, 1, 1>>, name |-> "a"]}

InitCSV ==
    /\ \E t \in StartTimes : InitApp(t)
    /\ \E tz \in TimeZones : InitService([kind |-> "reject", data |-> NoData], tz)
    /\ \E n \in 0..MaxRows : \E rows \in [1..n -> CsvLines] :
          arg = <<[date |-> <<NaN>>, name |-> "header"]>> \o rows
    /\ res = [fn |-> "none", out |-> <<>>]

CallParseCSV ==
    /\ res' = [fn |-> "parseCSV", out |-> parseCSV(arg)]
    /\ UNCHANGED <<now, AppState, lastOp, startTime, arg, ServiceState>>

SpecCSV == InitCSV /\ [][CallParseCSV]_vars

(***************************************************************************)
(* One run of the refresh script: arg holds the answers the two requests   *)
(* get and the cache file as it is before the run, res the exit code and   *)
(* the cache file after the run.                                           *)
(***************************************************************************)
\* the body of a response whose status is not OK: an error page, no line of
\* which has a comma
ErrorPage == <<[date |-> <<NaN>>, name |-> ""], [date |-> <<NaN>>, name |-> ""]>>
\* what a request can get: the fetch rejects, a status that is not OK, an
\* OK response whose body cannot be decoded, an OK response with a CSV text
Answers ==
    LET Header == [date |-> <<NaN>>, name |-> "header"]
        Texts  == {<<Header>>,
                   <<Header, [date |-> <<2025, 5, 3>>, name |-> "a"]>>,
                   <<Header, [date |-> <<2025, 2, 30>>, name |-> "a"],
                             [date |-> <<2026, 1, 1>>, name |-> "a"]>>,
                   <<Header, [date |-> <<2026, 1, 1>>, name |-> "a"],
                             [date |-> <<2025, 5, 3>>, name |-> "a"]>>}
    IN  {[kind |-> "error", body |-> <<>>], [kind |-> "status", body |-> ErrorPage]}
           \cup {[kind |-> k, body |-> text] : k \in {"decode", "ok"}, text \in Texts}
\* the cache file of an earlier run
OldCache ==
    [lastUpdated |-> <<2025, 1, 1>>,
     holidays |-> 2025 :> <<[date |-> <<2025, 1, 1>>, name |-> "a"]>>]

InitRefresh ==
    /\ \E t \in StartTimes : InitApp(t)
    /\ \E tz \in TimeZones : InitService([kind |-> "reject", data |-> NoData], tz)
    \* the second request's body is read as text, which always decodes
    /\ \E first \in Answers, second \in {a \in Answers : a.kind # "decode"} :
          arg = [first |-> first, second |-> second, cache |-> OldCache]
    /\ res = [fn |-> "none", out |-> [exit |-> 0, cache |-> OldCache]]

\* run(): fetchCSV, parseCSV, generateJSON; any throw ends in process.exit(1)
run ==
    LET fetched == fetchCSV(arg.first, arg.second)
    IN  /\ res' = [fn |-> "run",
                   out |-> IF fetched.threw
                           THEN [exit |-> 1, cache |-> arg.cache]
                           ELSE [exit |-> 0,
                                 cache |-> generateJSON(parseCSV(fetched.csvText))]]
        /\ UNCHANGED <<now, AppState, lastOp, startTime, arg, ServiceState>>

SpecRefresh == InitRefresh /\ [][run]_vars

(***************************************************************************)
(* Claims                                                                  *)
(***************************************************************************)
\* the quarter-hour cells a candidate's range covers
Covered(c) == {t \in StartMinutes(c)..(EndMinutes(c) - 1) : t % minuteInterval = 0}
OnDay(list, day) == {i \in 1..Len(list) : list[i].date.day = day}
CoveredOnDay(list, day) == UNION {Covered(list[i]) : i \in OnDay(list, day)}
DaysOf(list) == {list[i].date.day : i \in 1..Len(list)}
Range(c) == <<StartMinutes(c), EndMinutes(c)>>

\* out is the merge of list: per calendar day the entries of out are the
\* maximal runs of touching or overlapping candidates, in start order, each
\* run spanning from its least start to its greatest end
IsMergeOf(list, out) ==
    /\ DaysOf(out) = DaysOf(list)
    /\ \A day \in DaysOf(list) :
          /\ CoveredOnDay(out, day) = CoveredOnDay(list, day)
          /\ \A i, j \in OnDay(out, day) :
                i < j => EndMinutes(out[i]) < StartMinutes(out[j])
          /\ \A i \in OnDay(out, day) :
                LET members == {k \in OnDay(list, day) :
                               /\ StartMinutes(list[k]) >= StartMinutes(out[i])
                               /\ EndMinutes(list[k]) <= EndMinutes(out[i])}
                IN  /\ members # {}
                    /\ \A k \in members : StartMinutes(out[i]) <= StartMinutes(list[k])
                    /\ \E k \in members : StartMinutes(out[i]) = StartMinutes(list[k])
                    /\ \E k \in members : EndMinutes(out[i]) = EndMinutes(list[k])

\* C1: mergeContinuousCandidates groups the candidates by calendar date and,
\* per date in start order, merges a candidate into the running range
\* exactly when its start <= the running end, to [min start, max end];
\* candidates separated by a gap stay separate.  9:00-10:00 with 10:00-11:00
\* gives one 9:00-11:00 entry, 9:00-10:00 with 10:15-11:00 two unchanged ones.
C1_MergeContiguous ==
    res.fn = "mergeContinuousCandidates" =>
        /\ IsMergeOf(arg, res.out)
        /\ (/\ Len(arg) = 2
            /\ arg[1].date.day = arg[2].date.day
            /\ Range(arg[1]) = <<540, 600>>
            /\ Range(arg[2]) = <<600, 660>>)
              => (Len(res.out) = 1 /\ Range(res.out[1]) = <<540, 660>>)
        /\ (/\ Len(arg) = 2
            /\ arg[1].date.day = arg[2].date.day
            /\ Range(arg[1]) = <<540, 600>>
            /\ Range(arg[2]) = <<615, 660>>)
              => res.out = arg

\* three candidates of one calendar day (two Dates that differ in the time
\* of day among them), the third reaching the running range but not the
\* candidate before it, merged into one entry
C1_Witness ==
    /\ res.fn = "mergeContinuousCandidates"
    /\ Len(arg) = 3
    /\ Len(res.out) = 1
    /\ \E i, j \in 1..3 : arg[i].date.day = arg[j].date.day /\ arg[i].date # arg[j].date
    /\ Range(arg[1]) = <<540, 660>>
    /\ Range(arg[2]) = <<540, 600>>
    /\ Range(arg[3]) = <<615, 660>>

\* C3: mergeContinuousCandidates is idempotent: merging its result again
\* gives the same entries with the same ranges in the same order.
C3_MergeIdempotent ==
    res.fn = "mergeContinuousCandidates" =>
        mergeContinuousCandidates(res.out) = res.out

\* a merge that joined candidates and still has two entries
C3_Witness ==
    /\ res.fn = "mergeContinuousCandidates"
    /\ Len(arg) = 3
    /\ Len(res.out) = 2
    /\ res.out[1].date.day = res.out[2].date.day

Overlap(a, b) ==
    /\ a.date.day = b.date.day
    /\ StartMinutes(a) < EndMinutes(b)
    /\ EndMinutes(a) > StartMinutes(b)

\* C4: checkTimeConflicts returns exactly one 'time_overlap' entry for every
\* unordered pair of candidates on one calendar date with startA < endB and
\* endA > startB, and no other entry; touching ranges and different dates
\* are not reported.
C4_DetectConflicts ==
    res.fn = "checkTimeConflicts" =>
        /\ \A k \in 1..Len(res.out) :
              /\ res.out[k].type = "time_overlap"
              /\ res.out[k].candidate1 \in 1..Len(arg)
              /\ res.out[k].candidate2 \in 1..Len(arg)
              /\ res.out[k].candidate1 # res.out[k].candidate2
        /\ \A i, j \in 1..Len(arg) :
              i < j =>
                 Cardinality({k \in 1..Len(res.out) :
                     {res.out[k].candidate1, res.out[k].candidate2} = {i, j}})
                   = IF Overlap(arg[i], arg[j]) THEN 1 ELSE 0
        /\ (/\ Len(arg) = 2
            /\ arg[1].date.day = arg[2].date.day
            /\ Range(arg[1]) = <<540, 600>>
            /\ Range(arg[2]) = <<570, 630>>) => Len(res.out) = 1
        /\ (/\ Len(arg) = 2
            /\ Range(arg[1]) = <<540, 600>>
            /\ Range(arg[2]) = <<600, 660>>) => Len(res.out) = 0

\* an overlapping pair on one calendar day (two Dates that differ in the time
\* of day) and the same range once more on another date
C4_Witness ==
    /\ res.fn = "checkTimeConflicts"
    /\ Len(arg) = 3
    /\ Len(res.out) = 1
    /\ arg[1].date.day = arg[2].date.day
    /\ arg[1].date # arg[2].date
    /\ arg[3].date.day # arg[1].date.day
    /\ Range(arg[1]) = <<540, 600>>
    /\ Range(arg[2]) = <<570, 630>>
    /\ Range(arg[3]) = <<570, 630>>

\* the candidates of the store that lie on m's calendar day inside m's span
Inside(c, m) ==
    /\ c.date.day = m.date.day
    /\ StartMinutes(m) <= StartMinutes(c)
    /\ EndMinutes(c) <= EndMinutes(m)

\* C2: removeMergedCandidate(m), m an entry of the merged list on display,
\* removes from the store every candidate on m's calendar date whose range
\* lies within [m.start, m.end] and no other candidate; merging the store
\* afterwards gives the previous merged list without m.
C2_RemoveMerged ==
    [][lastOp'.op = "removeMerged" =>
          LET m == lastOp'.cand
          IN  /\ \E i \in 1..Len(candidatesDisplay) : candidatesDisplay[i] = m
              /\ candidatesDisplay = mergeContinuousCandidates(selectedCandidates)
              /\ selectedCandidates' =
                    SelectSeq(selectedCandidates, LAMBDA c : ~Inside(c, m))
              /\ mergeContinuousCandidates(selectedCandidates') =
                    SelectSeq(mergeContinuousCandidates(selectedCandidates),
                              LAMBDA x : x # m)]_vars

\* a merged entry was removed and a candidate of the same calendar day,
\* separated from it by a gap, is still in the store
C2_Witness ==
    /\ lastOp.op = "removeMerged"
    /\ Len(selectedCandidates) = 1
    /\ selectedCandidates[1].date.day = lastOp.cand.date.day
    /\ EndMinutes(lastOp.cand) < StartMinutes(selectedCandidates[1])

\* C5: sortCandidates orders by calendar date ascending and, on one calendar
\* date, by start-of-day minutes ascending; the store addCandidate has just
\* sorted is in that order.
C5_SortedByDateThenStart ==
    lastOp.op = "addCandidate" =>
        \A i, j \in 1..Len(selectedCandidates) :
            i < j =>
               \/ selectedCandidates[i].date.day < selectedCandidates[j].date.day
               \/ /\ selectedCandidates[i].date.day = selectedCandidates[j].date.day
                  /\ StartMinutes(selectedCandidates[i])
                        <= StartMinutes(selectedCandidates[j])

\* C6: no two candidates of the store have the same id.
C6_IdsUnique ==
    \A i, j \in 1..Len(selectedCandidates) :
        i # j => selectedCandidates[i].id # selectedCandidates[j].id

\* C7: every stored candidate starts strictly before it ends, on multiples of
\* the 15-minute interval; a drag from cell a to cell b of one day column
\* yields the range [min(a,b), max(a,b) + one interval] on that column's date.
C7_CandidateInvariant ==
    /\ \A i \in 1..Len(selectedCandidates) :
          LET c == selectedCandidates[i]
          IN  /\ StartMinutes(c) < EndMinutes(c)
              /\ c.startMinute \in 0..59 /\ c.startMinute % 15 = 0
              /\ c.endMinute \in 0..59 /\ c.endMinute % 15 = 0
    /\ lastOp.op = "addCandidate" =>
          /\ \E i \in 1..Len(selectedCandidates) : selectedCandidates[i] = lastOp.cand
          /\ StartMinutes(lastOp.cand) = Min(lastOp.a, lastOp.b)
          /\ EndMinutes(lastOp.cand) = Max(lastOp.a, lastOp.b) + 15
          /\ lastOp.cand.dayOffset = lastOp.day

\* a drag upwards (released on an earlier cell than it started on), made
\* after a week navigation, next to a full-day candidate
C7_Witness ==
    /\ lastOp.op = "addCandidate"
    /\ lastOp.a > lastOp.b
    /\ netWeeks # 0
    /\ \E i \in 1..Len(selectedCandidates) : selectedCandidates[i].isFullDay

\* C8: getWeekDates returns 7 consecutive calendar dates, the first a Monday,
\* namely the reference date minus ((weekday + 6) mod 7) days, and the
\* reference date's calendar day is among them.
C8_WeekDates ==
    LET week == getWeekDates(currentWeek)
    IN  /\ Len(week) = 7
        /\ \A i \in 1..7 : week[i].day = week[1].day + (i - 1)
        /\ (week[1].day + 4) % 7 = 1
        /\ week[1].day = currentWeek.day - ((((currentWeek.day + 4) % 7) + 6) % 7)
        /\ \E i \in 1..7 : week[i].day = currentWeek.day

\* the calendar rendered for a Sunday whose week began in the year before
C8_Witness ==
    /\ appPc = "ready"
    /\ getDay(currentWeek) = 0
    /\ CivilFromDays(getWeekDates(currentWeek)[1].day).year
          # CivilFromDays(currentWeek.day).year

\* C9: moveToNextWeek and moveToPreviousWeek change the reference date by
\* exactly +7 and -7 calendar days, moveToThisWeek sets it to the current
\* date; the displayed Monday is the Monday of the last reset date plus
\* 7 * (next - previous) days, and next and previous undo each other.
C9_WeekNavigation ==
    [][/\ lastOp'.op = "next" =>
             /\ currentWeek' = [currentWeek EXCEPT !.day = @ + 7]
             /\ moveToPreviousWeek(currentWeek') = currentWeek
             /\ netWeeks' = netWeeks + 1 /\ resetDate' = resetDate
       /\ lastOp'.op = "prev" =>
             /\ currentWeek' = [currentWeek EXCEPT !.day = @ - 7]
             /\ moveToNextWeek(currentWeek') = currentWeek
             /\ netWeeks' = netWeeks - 1 /\ resetDate' = resetDate
       /\ lastOp'.op = "today" =>
             /\ currentWeek'.day = now \div TicksPerDay
             /\ currentWeek'.tod = now % TicksPerDay
             /\ netWeeks' = 0 /\ resetDate' = currentWeek'
       /\ getWeekDates(currentWeek')[1].day =
             getWeekDates(resetDate')[1].day + 7 * netWeeks'
      ]_vars

\* two weeks back from the reset date, into the month before
C9_Witness ==
    /\ lastOp.op = "prev"
    /\ netWeeks = -2
    /\ getMonth(currentWeek) # getMonth(resetDate)
    /\ getDate(resetDate) < 7

C11_ValidTimeRange ==
    res.fn = "isValidTimeRange" =>
        res.out =
           (/\ arg[1] \in startHour..endHour
            /\ arg[3] \in startHour..endHour
            /\ arg[2] \in {m \in 0..59 : m % minuteInterval = 0}
            /\ arg[4] \in {m \in 0..59 : m % minuteInterval = 0}
            /\ arg[3] * 60 + arg[4] > arg[1] * 60 + arg[2]
            /\ arg[3] * 60 + arg[4] <= endHour * 60)

\* a range of two valid times, the end after the start, that is rejected
\* only because it ends after 18:00
C11_Witness ==
    /\ res.fn = "isValidTimeRange"
    /\ arg = <<17, 45, 18, 15>>
    /\ isValidTime(arg[1], arg[2])
    /\ isValidTime(arg[3], arg[4])
    /\ res.out = FALSE

\* C12: in primary mode (holidayData loaded) HolidayService.isHoliday(date)
\* is false when the mapping has no list for the date's year, and otherwise
\* true if and only if the date's ISO calendar-date string, the date part of
\* date.toISOString(), is the date of an entry of that year's list.
C12_PrimaryLookup ==
    (lastOp.op = "isHoliday" /\ isInitialized /\ holidayData.kind # "null") =>
        LET year   == CivilFromDays(arg.day).year
            listed == holidayData.holidays
        IN  res.out =
               (/\ year \in DOMAIN listed
                /\ listed[year].isArray
                /\ toISODate(arg) \in
                      {listed[year].items[i].date :
                          i \in 1..Len(listed[year].items)})

\* a holiday found in primary mode for a Date whose ISO string names another
\* day than its local calendar day
C12_Witness ==
    /\ lastOp.op = "isHoliday"
    /\ isInitialized
    /\ holidayData.kind # "null"
    /\ fallbackHolidays.kind = "null"
    /\ res.out = TRUE
    /\ toISODate(arg) # getDateKey(arg)

NthDayOfMonth(year, month, weekday, n) ==
    LET first == (DaysFromCivil(year, month, 1) + 4) % 7
    IN  1 + ((weekday - first + 7) % 7) + (n - 1) * 7

DaysInMonth(year, month) ==
    (IF month = 12 THEN DaysFromCivil(year + 1, 1, 1)
     ELSE DaysFromCivil(year, month + 1, 1)) - DaysFromCivil(year, month, 1)

\* date is the day `dom` of the month, has the weekday, and exactly n-1
\* earlier days of the month have that weekday
IsNthOccurrence(date, year, month, weekday, n, dom) ==
    /\ CivilFromDays(date.day) = [year |-> year, month |-> month, date |-> dom]
    /\ (date.day + 4) % 7 = weekday
    /\ Cardinality({d \in 1..(dom - 1) :
          (DaysFromCivil(year, month, d) + 4) % 7 = weekday}) = n - 1

C15_ModeFixed ==
    [][/\ isInitialized' =>
             ((holidayData'.kind # "null") # (fallbackHolidays'.kind # "null"))
       /\ isInitialized =>
             UNCHANGED <<holidayData, fallbackHolidays, isInitialized>>
      ]_vars

\* the primary load fails: the fetch rejects, the status is not OK, the body
\* is not JSON, the file has no holidays, or a year's value makes the load
\* throw
LoadFails(r) ==
    \/ r.kind \in {"reject", "status", "syntax"}
    \/ ~r.data.hasHolidays
    \/ \E year \in DOMAIN r.data.holidays : ~r.data.holidays[year].isArray

\* C16: whenever the primary load fails for any reason, initialize() still
\* resolves without an error, the service ends initialized, and every later
\* isHoliday call is answered by the fallback rules, not by the primary
\* mapping.
C16_FailureMeansFallback ==
    (LoadFails(response) /\ loadPc = "done") =>
        /\ isInitialized
        /\ lastOp.op = "isHoliday" =>
              res.out = _isHolidayFromFallback(_initializeFallbackHolidays, arg)

\* C17: HolidayService.isHoliday(date) called before initialization has
\* completed (never started, or started and still loading) returns false
\* for every date and leaves the service state unchanged.
C17_NotInitializedIsFalse ==
    [][(lastOp'.op = "isHoliday" /\ ~isInitialized) =>
          (res'.out = FALSE /\ UNCHANGED ServiceState)]_vars

\* isHoliday asked about a day the loaded file lists, after holidayData was
\* assigned and before _performInitialization has set isInitialized
C17_Witness ==
    /\ lastOp.op = "isHoliday"
    /\ ~isInitialized
    /\ loadPc = "resume"
    /\ holidayData.kind # "null"
    /\ _isHolidayFromJSON(holidayData, arg)
    /\ res.out = FALSE

\* C18: Scheduler.isHoliday(date) returns false for every date while the
\* holiday service is not yet initialized, and once it is initialized
\* exactly what HolidayService.isHoliday(date) returns.
C18_SchedulerIsHoliday ==
    lastOp.op = "Scheduler.isHoliday" =>
        res.out = (IF isInitialized THEN isHoliday(arg) ELSE FALSE)

\* C19: every batch renderer (formatCandidates, formatByDate,
\* formatForEmail, formatForChat) emits its entries in sort order, calendar
\* date ascending and then start time ascending, for every input order (and
\* one entry per candidate), and leaves the list passed in as it was.
C19_RenderersSorted ==
    res.fn \in {"formatCandidates", "formatByDate", "formatForEmail",
                "formatForChat"} =>
        LET entries == SelectSeq(res.out,
                           LAMBDA l : l.kind \in {"entry", "bullet"})
            Day(i)   == DaysFromCivil(entries[i].text[1].year,
                                      entries[i].text[1].month,
                                      entries[i].text[1].day)
            Start(i) == entries[i].text[1].startTime[1] * 60
                           + entries[i].text[1].startTime[2]
        IN  /\ Len(entries) = Len(arg)
            /\ \A i, j \in 1..Len(entries) :
                  i < j => \/ Day(i) < Day(j)
                           \/ Day(i) = Day(j) /\ Start(i) <= Start(j)

\* C20: parseCSV returns exactly the data rows (header skipped) that have
\* both fields, a three-part date that is a genuine calendar date and a year
\* >= the current year; every retained row YYYY/MM/DD appears once, under
\* the key of its own year and with the ISO date string of that same
\* calendar day, and each year's list is sorted ascending by date; all other
\* rows are skipped.
C20_ParseCSV ==
    res.fn = "parseCSV" =>
        LET Retained(line) ==
                /\ line.name # ""
                /\ Len(line.date) = 3
                /\ line.date[1] >= getFullYear(NewDate(now))
                /\ line.date[2] \in 1..12
                /\ line.date[3] \in 1..DaysInMonth(line.date[1], line.date[2])
            rows == {i \in 2..Len(arg) : Retained(arg[i])}
            Day(date) == DaysFromCivil(date[1], date[2], date[3])
        IN  /\ DOMAIN res.out = {arg[i].date[1] : i \in rows}
            /\ \A year \in DOMAIN res.out :
                  LET list == res.out[year]
                  IN  /\ Len(list) =
                            Cardinality({i \in rows : arg[i].date[1] = year})
                      /\ \A i \in rows :
                            arg[i].date[1] = year =>
                               Cardinality({k \in 1..Len(list) :
                                               list[k].date = arg[i].date})
                                 = Cardinality({j \in rows :
                                               arg[j].date = arg[i].date})
                      /\ \A k \in 1..(Len(list) - 1) :
                            Day(list[k].date) <= Day(list[k + 1].date)

\* C21: a refresh run fails, and leaves the cache file as it was, exactly
\* when both requests fail to obtain the CSV (the fetch rejects, the status
\* is not OK, the body cannot be decoded); in every other case the cache
\* holds the valid rows of the text the successful request delivered, so it
\* never holds content derived from an error response
C21_RefreshFails ==
    res.fn = "run" =>
        LET Fails(a) == a.kind # "ok"
            both     == Fails(arg.first) /\ Fails(arg.second)
            text     == IF ~Fails(arg.first) THEN arg.first.body
                        ELSE arg.second.body
        IN  /\ res.out.exit # 0 <=> both
            /\ both => res.out.cache = arg.cache
            /\ ~both => res.out.cache.holidays = parseCSV(text)


\* C22: the app is ready (listeners registered, calendar rendered) only when
\* the load of the holiday service has settled, in primary or in fallback
\* mode, and every holiday query of the first render was answered by the
\* initialized service
C22_StartupAwaitsLoad ==
    appPc = "ready" =>
        /\ loadPc = "done"
        /\ isInitialized
        /\ holidayData.kind # "null" \/ fallbackHolidays.kind # "null"
        /\ res.fn = "updateDateHeaders" =>
              \A i \in 1..7 :
                 res.out[i] = isHoliday(getWeekDates(NewDate(startTime))[i])

\* the app is ready after a load that settled in fallback mode, and the
\* first render marked January 1 as a holiday
C22_Witness ==
    /\ appPc = "ready"
    /\ holidayData.kind = "null"
    /\ fallbackHolidays.kind # "null"
    /\ res.fn = "updateDateHeaders"
    /\ res.out[4]
    /\ ~res.out[5]

\* C23: the load is started at most once: a step starts it only when no
\* initialization was started before, the promise of the started
\* initialization is kept for good, a call of initialize() made while the
\* load is in flight or after it has completed changes nothing of the
\* service, and the shared initialization settles only with isInitialized
\* true
C23_LoadStartedOnce ==
    [][/\ initPromise => initPromise'
       /\ loadPc' = "idle" => loadPc = "idle"
       /\ (loadPc' = "fetch" /\ loadPc # "fetch") =>
              /\ loadPc = "idle" /\ ~initPromise /\ ~isInitialized
              /\ lastOp'.op = "initialize"
       /\ (lastOp'.op = "initialize" /\ (initPromise \/ isInitialized)) =>
              /\ UNCHANGED ServiceState
              /\ res'.out = FALSE
       /\ loadPc' = "done" => isInitialized'
       /\ isInitialized => isInitialized' /\ loadPc = "done"]_vars

\* initialize() was called while the load it shares was in flight
C23_Witness ==
    /\ lastOp.op = "initialize"
    /\ res.fn = "initialize"
    /\ res.out = FALSE
    /\ loadPc = "json"
    /\ initPromise
    /\ ~isInitialized

\* C24: a time cell of the displayed week is marked selected exactly when a
\* stored candidate on the date of its column covers its time
\* (start <= cell < end), and the id on a marked cell is the id of a stored
\* candidate
C24_CellMarks ==
    appPc = "ready" =>
        \A cell \in Cells :
           LET date    == getWeekDates(currentWeek)[cell[1] + 1]
               covered == \E i \in 1..Len(selectedCandidates) :
                             /\ getDateKey(selectedCandidates[i].date) = getDateKey(date)
                             /\ StartMinutes(selectedCandidates[i]) <= cell[2]
                             /\ cell[2] < EndMinutes(selectedCandidates[i])
           IN  /\ MarkOf(cellMark, cell) # 0 <=> covered
               /\ MarkOf(cellMark, cell) # 0 =>
                     \E i \in 1..Len(selectedCandidates) :
                        selectedCandidates[i].id = MarkOf(cellMark, cell)

\* C25: the header of a displayed day column is marked selected exactly
\* when the store holds a full-day candidate for the date the column shows
C25_HeaderMarks ==
    appPc = "ready" =>
        \A d \in 0..6 :
           headerSelected[d] <=>
              \E i \in 1..Len(selectedCandidates) :
                 /\ selectedCandidates[i].isFullDay
                 /\ getDateKey(selectedCandidates[i].date) =
                       getDateKey(getWeekDates(currentWeek)[d + 1])

\* C26: a candidate created by a drag or a click on the time grid lies
\* inside the daily window: it starts at startHour:00 or later, ends at
\* endHour:00 or earlier and satisfies isValidTimeRange, whichever cells the
\* gesture touched
C26_InsideWindow ==
    lastOp.op = "addCandidate" =>
        /\ StartMinutes(lastOp.cand) >= startHour * 60
        /\ EndMinutes(lastOp.cand) <= endHour * 60
        /\ isValidTimeRange(lastOp.cand.startHour, lastOp.cand.startMinute,
                            lastOp.cand.endHour, lastOp.cand.endMinute)

\* C27: a selection starts only with a mousedown on an unselected cell and
\* stays on that cell's day while the pointer moves; the release ends it and
\* adds exactly one candidate, in the day column where the drag started and
\* on the date that column shows; the delivery of the same release to the
\* document's listener after the cell's listener adds nothing
C27_OneCandidatePerDrag ==
    [][/\ (~isSelecting /\ isSelecting') =>
              \E day \in DragDays, t \in DragCells :
                 /\ startSelection(day, t)
                 /\ MarkOf(cellMark, <<day, t>>) = 0
                 /\ selectionStart' =
                       [day |-> day, hour |-> t \div 60, minute |-> t % 60]
                 /\ UNCHANGED selectedCandidates
       /\ \A day \in OverDays, t \in DragCells :
              updateSelection(day, t) =>
                 /\ isSelecting /\ isSelecting'
                 /\ selectionStart' = selectionStart
                 /\ UNCHANGED <<selectedCandidates, currentWeek>>
       /\ (isSelecting /\ ~isSelecting') =>
              /\ cellMouseUp \/ documentMouseUp
              /\ lastOp'.op = "addCandidate"
              /\ lastOp'.cand.dayOffset = selectionStart.day
              /\ lastOp'.cand.date =
                    getWeekDates(currentWeek)[selectionStart.day + 1]
              /\ Len(selectedCandidates') = Len(selectedCandidates) + 1
              /\ selectedCandidates' =
                    sortCandidates(Append(selectedCandidates, lastOp'.cand))
       /\ (appPc = "bubble" /\ appPc' = "ready") =>
              /\ ~isSelecting /\ ~isSelecting'
              /\ UNCHANGED selectedCandidates]_vars

\* a drag from one cell to another was released over a cell: the cell's
\* listener has added its candidate and the release is on its way to the
\* document's listener
C27_Witness ==
    /\ appPc = "bubble"
    /\ ~isSelecting
    /\ lastOp.op = "addCandidate"
    /\ lastOp.a # lastOp.b
    /\ lastOp.cand.dayOffset = lastOp.day
    /\ Len(selectedCandidates) = 2

\* C28: in primary mode the answer of isHoliday depends only on the local
\* calendar day of its argument: every Date on that local day gets the same
\* answer, in every time zone, and the answer says whether that local day is
\* listed under its own year
C28_LocalDayOnly ==
    (lastOp.op = "isHoliday" /\ isInitialized /\ holidayData.kind # "null") =>
        LET year   == getFullYear(arg)
            local  == <<year, getMonth(arg) + 1, getDate(arg)>>
            listed == /\ year \in DOMAIN holidayData.holidays
                      /\ holidayData.holidays[year].isArray
                      /\ \E i \in 1..Len(holidayData.holidays[year].items) :
                            holidayData.holidays[year].items[i].date = local
        IN  /\ \A t \in 0..(TicksPerDay - 1) :
                  res.out = isHoliday([arg EXCEPT !.tod = t])
            /\ res.out = listed

====
